---- MODULE Spec2Model ----
(***************************************************************************)
(* Pulse web scraper: the review endpoint (POST /scrape-reviews), the      *)
(* generic endpoint (POST /scrape), the three review drivers (Capterra,    *)
(* TrustRadius, G2) and the date utilities they share, as a state machine. *)
(*                                                                         *)
(* One behaviour is one call: an HTTP request to one of the two endpoints, *)
(* or a direct call of an exported driver with an explicit page cap.  A    *)
(* step of the machine is the code between two awaits.  Every awaited      *)
(* browser operation either resolves or rejects; which one is the          *)
(* environment's choice.                                                   *)
(***************************************************************************)
EXTENDS Integers, Sequences, FiniteSets, TLC

(***************************************************************************)
(* Bounds of the model.                                                    *)
(***************************************************************************)
MaxAvail == 3        \* result sets have 1..MaxAvail pages
MaxCap == 3          \* direct driver calls pass maxPages in 1..MaxCap
MaxRounds == 3       \* extractions of one run of the G2 loop that are followed
MaxCards == 2        \* product cards on a Capterra search page
MaxInstant == 3      \* isDateInRange is applied to the instants 0..MaxInstant
MaxContainers == 2   \* elements a root selector matches on a page
MaxBlocks == 2       \* candidate nodes of a page in automatic extraction
MaxAgo == 3          \* parseDate is applied to "<N> <unit> ago" for N in 0..MaxAgo

(***************************************************************************)
(* Calendar arithmetic of the host's Date object.  An instant is a number  *)
(* of hours since 1970-01-01T00:00Z; tz is the host's offset, the hours    *)
(* local time is ahead of UTC.                                             *)
(***************************************************************************)
IsLeap(y) == (y % 4 = 0 /\ y % 100 # 0) \/ y % 400 = 0

DaysInMonth(y, m) ==
  IF m = 2 THEN (IF IsLeap(y) THEN 29 ELSE 28)
  ELSE IF m \in {4, 6, 9, 11} THEN 30 ELSE 31

\* days from 1970-01-01 to the civil date y-m-d (m in 1..12, any d)
DaysFromCivil(y, m, d) ==
  LET yy  == IF m <= 2 THEN y - 1 ELSE y
      era == yy \div 400
      yoe == yy - era * 400
      mp  == IF m > 2 THEN m - 3 ELSE m + 9
      doy == (153 * mp + 2) \div 5 + d - 1
      doe == yoe * 365 + yoe \div 4 - yoe \div 100 + doy
  IN era * 146097 + doe - 719468

\* the civil date of a day number, as <<y, m, d>>
CivilFromDays(z0) ==
  LET z   == z0 + 719468
      era == z \div 146097
      doe == z - era * 146097
      yoe == (doe - doe \div 1460 + doe \div 36524 - doe \div 146096) \div 365
      doy == doe - (365 * yoe + yoe \div 4 - yoe \div 100)
      mp  == (5 * doy + 2) \div 153
      d   == doy - (153 * mp + 2) \div 5 + 1
      m   == IF mp < 10 THEN mp + 3 ELSE mp - 9
      y   == yoe + era * 400 + (IF m <= 2 THEN 1 ELSE 0)
  IN <<y, m, d>>

\* MakeDay of ECMAScript: month index 0.. may overflow into later years, the
\* day may overflow into later months
MakeDay(year, monthIndex, day) ==
  LET y == year + monthIndex \div 12
      m == monthIndex % 12
  IN DaysFromCivil(y, m + 1, 1) + (day - 1)

\* new Date(year, monthIndex, day): local midnight of that day
LocalDate(year, monthIndex, day, tz) == MakeDay(year, monthIndex, day) * 24 - tz

\* Date.prototype.getFullYear/getMonth/getDate: the local calendar fields
LocalFields(t, tz) == CivilFromDays((t + tz) \div 24)

LocalHour(t, tz) == (t + tz) % 24

(***************************************************************************)
(* Date strings.  A string is kept as the fields a parser reads from it:   *)
(*   fmt "empty"    ""                                                     *)
(*   fmt "iso"      "YYYY-MM-DD", zero padded          (y, m, d)           *)
(*   fmt "name"     "<MonthName> D, YYYY"              (y, m, d)           *)
(*   fmt "ymd"      "YYYY/M/D"                         (y, m, d)           *)
(*   fmt "dmy"      "D/M/YYYY"                         (y, m, d)           *)
(*   fmt "rel"      "<N> <unit> ago"   y = N, m = unit (1 day, 2 week,     *)
(*                                     3 month, 4 year)                    *)
(*   fmt "garbage"  text no strategy accepts                               *)
(***************************************************************************)
DStr(f, y, m, d) == [fmt |-> f, y |-> y, m |-> m, d |-> d]

EmptyStr == DStr("empty", 0, 0, 0)
Garbage == DStr("garbage", 0, 0, 0)

\* parseDate's null
Null == -1

\* the month and day numbers the host's date parser (V8) accepts in a
\* string: a month of 1..12 and a day of 1..31, whatever the month
HostAccepts(m, d) == m \in 1..12 /\ d \in 1..31

\* new Date(string) of the host (V8): a date-only ISO string is UTC midnight;
\* the legacy forms are local midnight, "a/b/yyyy" being read month first;
\* a day past the end of its month runs over into the next month; anything
\* else is NaN (Null here)
NativeParse(s, tz) ==
  CASE s.fmt = "iso" /\ HostAccepts(s.m, s.d) -> MakeDay(s.y, s.m - 1, s.d) * 24
    [] s.fmt = "name" /\ HostAccepts(s.m, s.d) -> LocalDate(s.y, s.m - 1, s.d, tz)
    [] s.fmt = "ymd" /\ HostAccepts(s.m, s.d) -> LocalDate(s.y, s.m - 1, s.d, tz)
    [] s.fmt = "dmy" /\ HostAccepts(s.d, s.m) -> LocalDate(s.y, s.d - 1, s.m, tz)
    [] OTHER -> Null

\* the relative branch with the sign of the offset turned round
RelativeDateForward(n, unit, now, tz) ==
  LET f == LocalFields(now, tz)
      h == LocalHour(now, tz)
      day == CASE unit = 1 -> MakeDay(f[1], f[2] - 1, f[3] + n)
               [] unit = 2 -> MakeDay(f[1], f[2] - 1, f[3] + n * 7)
               [] unit = 3 -> MakeDay(f[1], f[2] - 1 + n, f[3])
               [] OTHER    -> MakeDay(f[1] + n, f[2] - 1, f[3])
  IN day * 24 + h - tz

\* the relative branch: now.setDate / setMonth / setFullYear on local fields
RelativeDate(n, unit, now, tz) ==
  LET f == LocalFields(now, tz)
      h == LocalHour(now, tz)
      day == CASE unit = 1 -> MakeDay(f[1], f[2] - 1, f[3] - n)
               [] unit = 2 -> MakeDay(f[1], f[2] - 1, f[3] - n * 7)
               [] unit = 3 -> MakeDay(f[1], f[2] - 1 - n, f[3])
               [] OTHER    -> MakeDay(f[1] - n, f[2] - 1, f[3])
  IN day * 24 + h - tz

\* a parseDate that tries the numeric year-month-day pattern first
parseDateNumericFirst(s, tz, now) ==
  IF s.fmt = "empty" THEN Null
  ELSE IF s.fmt \in {"iso", "ymd"} THEN LocalDate(s.y, s.m - 1, s.d, tz)
  ELSE IF NativeParse(s, tz) # Null THEN NativeParse(s, tz)
  ELSE IF s.fmt = "rel" THEN RelativeDate(s.y, s.m, now, tz)
  ELSE IF s.fmt = "name" /\ s.m \in 1..12 THEN LocalDate(s.y, s.m - 1, s.d, tz)
  ELSE IF s.fmt = "dmy" THEN LocalDate(s.y, s.m - 1, s.d, tz)
  ELSE Null

\* parseDate(dateStr): the strategies in the order of the code
parseDate(s, tz, now) ==
  IF s.fmt = "empty" THEN Null
  ELSE IF NativeParse(s, tz) # Null THEN NativeParse(s, tz)
  ELSE IF s.fmt = "rel" THEN RelativeDate(s.y, s.m, now, tz)
  ELSE IF s.fmt = "name" /\ s.m \in 1..12 THEN LocalDate(s.y, s.m - 1, s.d, tz)
  ELSE IF s.fmt \in {"iso", "ymd"} THEN LocalDate(s.y, s.m - 1, s.d, tz)
  ELSE IF s.fmt = "dmy" THEN LocalDate(s.y, s.m - 1, s.d, tz)
  ELSE Null

\* The strategies of parseDate one by one: what each returns for a string
\* when it is reached, Null when it does not accept the string.
\* the relativeMatch branch
RelativeStrategy(s, tz, now) ==
  IF s.fmt = "rel" THEN RelativeDate(s.y, s.m, now, tz) ELSE Null

\* the monthNameMatch branch: the month name must be in the months table
MonthNameStrategy(s, tz) ==
  IF s.fmt = "name" /\ s.m \in 1..12 THEN LocalDate(s.y, s.m - 1, s.d, tz) ELSE Null

\* the numericMatch branch, /(\d{4})[-\/](\d{1,2})[-\/](\d{1,2})/
NumericStrategy(s, tz) ==
  IF s.fmt \in {"iso", "ymd"} THEN LocalDate(s.y, s.m - 1, s.d, tz) ELSE Null

\* the euroMatch branch, /(\d{1,2})[-\/](\d{1,2})[-\/](\d{4})/
EuroStrategy(s, tz) ==
  IF s.fmt = "dmy" THEN LocalDate(s.y, s.m - 1, s.d, tz) ELSE Null

\* formatDate(date) as <<year, month, day>> of the zero-padded text
formatDate(t, tz) == IF t = Null THEN <<>> ELSE LocalFields(t, tz)

\* a range test that excludes the start instant
isDateInRangeExclusive(date, startDate, endDate) ==
  IF date = Null \/ startDate = Null \/ endDate = Null THEN FALSE
  ELSE date > startDate /\ date <= endDate

\* isDateInRange(date, startDate, endDate)
isDateInRange(date, startDate, endDate) ==
  IF date = Null \/ startDate = Null \/ endDate = Null THEN FALSE
  ELSE date >= startDate /\ date <= endDate


(***************************************************************************)
(* The host clock read by parseDate's relative branch: 2025-07-01T12:00Z.  *)
(***************************************************************************)
Clock == DaysFromCivil(2025, 7, 1) * 24 + 12

\* host time-zone offsets the service may run under
TZs == {-5, 0, 5}

(***************************************************************************)
(* Request bodies.  A body field is absent (undefined, null, "" or another *)
(* falsy value), a truthy value that is not a string (a number), or a      *)
(* string.                                                                 *)
(***************************************************************************)
Field(t, s) == [t |-> t, s |-> s]

ReqDateStrs ==
  { DStr("iso", 2025, 1, 1), DStr("iso", 2025, 6, 15), DStr("iso", 2025, 6, 30),
    Garbage }

DateFields ==
  { Field("absent", EmptyStr), Field("num", EmptyStr) }
    \cup { Field("str", s) : s \in ReqDateStrs }

NameFields == {"absent", "num", "str"}

SourceFields == {"absent", "num", "g2", "Capterra", "TrustRadius", "yelp"}

\* String.prototype.toLowerCase on the source strings and the tag names of
\* the model
toLowerCase(s) ==
  CASE s = "Capterra" -> "capterra"
    [] s = "TrustRadius" -> "trustradius"
    [] s = "P" -> "p"
    [] s = "DIV" -> "div"
    [] s = "ARTICLE" -> "article"
    [] s = "H1" -> "h1"
    [] s = "H2" -> "h2"
    [] s = "H3" -> "h3"
    [] OTHER -> s

\* JavaScript truthiness of a body field
Truthy(f) == f.t = "num" \/ (f.t = "str" /\ f.s.fmt # "empty")

(***************************************************************************)
(* The review site.  A result set has avail pages; page p shows a          *)
(* non-disabled next control iff p < avail.  A page's review containers    *)
(* are fixed by its number; a page may have none.                          *)
(***************************************************************************)
Element(id, date, rating) == [id |-> id, date |-> date, rating |-> rating]

\* The rating element of a review container.  Ratings are in tenths.
\*   kind "none"     no element matches a rating selector
\*   kind "attrNum"  data-rating holds the number v / 10
\*   kind "attrNaN"  data-rating holds text that does not start with a number
\*   kind "stars"    no data-rating; v children of class star-filled and no
\*                   digit in the text
\*   kind "text"     no data-rating and no filled star; the text shows the
\*                   number v / 10
RatingEl(k, v) == [kind |-> k, v |-> v]

PageItems(p) ==
  CASE p % 3 = 1 -> << Element(10 * p + 1, DStr("name", 2025, 6, 30), RatingEl("attrNum", 45)),
                       Element(10 * p + 2, EmptyStr, RatingEl("none", 0)),
                       Element(10 * p + 3, DStr("name", 2025, 4, 3), RatingEl("stars", 4)) >>
    [] p % 3 = 2 -> << Element(10 * p + 1, DStr("iso", 2025, 1, 1), RatingEl("attrNaN", 0)),
                       Element(10 * p + 2, Garbage, RatingEl("text", 30)),
                       Element(10 * p + 3, DStr("ymd", 2024, 12, 31), RatingEl("attrNum", 50)) >>
    [] OTHER     -> << >>

\* the next-control probe of the page the browser shows
NextControl(p, av) == p < av

\* the number NaN
NaN == -1

\* parseFloat(dataRating) of a non-empty data-rating attribute
parseFloat(el) == IF el.kind = "attrNum" THEN el.v ELSE NaN

\* the rating of a review, in tenths: "let rating = 0" and the branches on
\* the rating element.  Capterra and TrustRadius count the filled stars when
\* there is no data-rating; G2 looks for a number in the text.
ParseRating(el, src) ==
  IF el.kind = "none" THEN 0
  ELSE IF el.kind \in {"attrNum", "attrNaN"} THEN parseFloat(el)
  ELSE IF src = "G2" THEN (IF el.kind = "text" THEN el.v ELSE 0)
  ELSE (IF el.kind = "stars" THEN el.v * 10 ELSE 0)

\* a Review as a driver builds it from one container
Review(el, src) ==
  [id |-> el.id, date |-> el.date, rating |-> ParseRating(el.rating, src), source |-> src]

RECURSIVE ExtractAll(_, _)
\* reviewElements.forEach(... reviews.push(...)): one Review per container, in
\* DOM order
ExtractAll(els, src) ==
  IF els = << >> THEN << >>
  ELSE << Review(Head(els), src) >> \o ExtractAll(Tail(els), src)

\* the G2 fixture (mockData), in the order of the source
MockData ==
  << [id |-> 1, date |-> DStr("name", 2025, 6, 15), rating |-> 45,
      source |-> "G2 (Demo Data)"],
     [id |-> 2, date |-> DStr("name", 2025, 5, 22), rating |-> 50,
      source |-> "G2 (Demo Data)"],
     [id |-> 3, date |-> DStr("name", 2025, 4, 3), rating |-> 35,
      source |-> "G2 (Demo Data)"],
     [id |-> 4, date |-> DStr("name", 2025, 3, 17), rating |-> 40,
      source |-> "G2 (Demo Data)"],
     [id |-> 5, date |-> DStr("name", 2025, 2, 8), rating |-> 50,
      source |-> "G2 (Demo Data)"] >>

\* a filter predicate that lets a review through when its date is null
KeepReviewNullIn(r, startDate, endDate, tz, now) ==
  LET reviewDate == parseDate(r.date, tz, now)
  IN IF reviewDate = Null THEN TRUE
     ELSE reviewDate >= startDate /\ reviewDate <= endDate

\* the predicate of allReviews.filter(...): parse, drop null, compare
KeepReview(r, startDate, endDate, tz, now) ==
  LET reviewDate == parseDate(r.date, tz, now)
  IN IF reviewDate = Null THEN FALSE
     ELSE reviewDate >= startDate /\ reviewDate <= endDate

RECURSIVE FilterReviewsReversed(_, _, _, _, _)
\* a filter that returns the kept reviews last first
FilterReviewsReversed(all, startDate, endDate, tz, now) ==
  IF all = << >> THEN << >>
  ELSE FilterReviewsReversed(Tail(all), startDate, endDate, tz, now)
       \o (IF KeepReview(Head(all), startDate, endDate, tz, now)
             THEN << Head(all) >> ELSE << >>)

RECURSIVE FilterReviews(_, _, _, _, _)
\* Array.prototype.filter with that predicate
FilterReviews(all, startDate, endDate, tz, now) ==
  IF all = << >> THEN << >>
  ELSE (IF KeepReview(Head(all), startDate, endDate, tz, now)
          THEN << Head(all) >> ELSE << >>)
       \o FilterReviews(Tail(all), startDate, endDate, tz, now)

(***************************************************************************)
(* Driver results: what the driver's promise settles to.                   *)
(***************************************************************************)
NoResult == [state |-> "none", success |-> FALSE, data |-> << >>, error |-> "none"]
Success(data) == [state |-> "value", success |-> TRUE, data |-> data, error |-> "none"]
Failure(err) == [state |-> "value", success |-> FALSE, data |-> << >>, error |-> err]
Rejected(err) == [state |-> "rejected", success |-> FALSE, data |-> << >>, error |-> err]

(***************************************************************************)
(* HTTP responses: status, whether the JSON carries a success member and   *)
(* its value, whether it carries an error member, and the data sent.       *)
(***************************************************************************)
Response(status, succ, err, data) ==
  [status |-> status, success |-> succ, error |-> err, data |-> data]

\* res.status(400).json({ error: ... })
ValidationResponse == Response(400, "absent", TRUE, << >>)
\* res.status(code).json({ success: false, error: ... })
FailureResponse(code) == Response(code, "false", TRUE, << >>)
\* res.json({ success: true, data, ... })
SuccessResponse(data) == Response(200, "true", FALSE, data)
\* res.json({ success: true, data: result.data, count: result.data.length,
\* filePath }) of the review endpoint
ReviewSuccessResponse(data) ==
  [status |-> 200, success |-> "true", error |-> FALSE, data |-> data,
   count |-> Len(data)]


(***************************************************************************)
(* State.                                                                  *)
(***************************************************************************)
VARIABLES
  useMockData,   \* the G2 module's mock-data toggle: a constant of the build,
                 \* true as shipped; false is the build that runs the live path
  tz,            \* the host's time-zone offset, hours ahead of UTC
  avail,         \* pages of the result set the site serves for this run
  kind,          \* "none", "review", "generic" or "direct": how the run was entered
  body,          \* req.body
  hpc,           \* position of the request handler
  responses,     \* the responses sent for the request, in order
  fault,         \* an exception left the handler (unhandled rejection)
  drv,           \* the driver invoked: "none", "g2", "capterra", "trustradius"
  args,          \* the driver's arguments
  dpc,           \* position of the driver
  launches,      \* browser sessions acquired (puppeteer.launch resolved)
  closes,        \* browser.close() calls
  sitePage,      \* the result page the browser shows, 0 before the reviews page
  currentPage,   \* the driver's page counter
  hasNextPage,   \* the driver's hasNextPage: "true", "false", or (G2) the probe
                 \* object, "objNext" / "objNoNext"
  allReviews,    \* the accumulator
  extracted,     \* the pages on which Extract ran, in order
  navFailedAt,   \* currentPage when a pagination navigation threw, else 0
  extractThrewAt, \* currentPage when the extraction evaluate threw, else 0
  locateThrew,   \* "none", or the step before the loop in which an exception
                 \* was raised: "launch", "open", "locate", "goto";
                 \* "swallowed" for a G2 candidate navigation that threw
  urlIdx,        \* G2: index of the candidate URL being tried, 0 outside the
                 \* for loop
  result,        \* what the driver's promise settled to
  spc,           \* position of scrapeSite
  siteResult,    \* what scrapeSite's promise settled to
  writes,        \* the fs.writeFile calls of the review endpoint, in order:
                 \* the data passed and whether the promise resolved
                 \* ("written") or rejected ("failed")
  calc           \* one application of a function of the code outside any
                 \* request: its name, its arguments and what it returned

cfgVars == <<useMockData, tz, avail>>
reqVars == <<kind, body>>
httpVars == <<hpc, responses, fault>>
callVars == <<drv, args>>
browserVars == <<launches, closes>>
loopVars == <<sitePage, currentPage, hasNextPage, allReviews, extracted, navFailedAt,
              extractThrewAt>>
siteVars == <<spc, siteResult>>

vars == <<useMockData, tz, avail, kind, body, hpc, responses, fault, drv, args, dpc,
          launches, closes, sitePage, currentPage, hasNextPage, allReviews,
          extracted, navFailedAt, extractThrewAt, locateThrew, urlIdx, result, spc, writes,
          siteResult, calc>>

NoBody ==
  [companyName |-> "absent", startDate |-> Field("absent", EmptyStr),
   endDate |-> Field("absent", EmptyStr), source |-> "absent", url |-> "absent"]

NoCalc == [op |-> "none"]

NoArgs == [company |-> "str", startDate |-> 0, endDate |-> 0, maxPages |-> 0]

\* maxPages = 10, the default of the three drivers
DefaultMaxPages == 10

Init ==
  /\ useMockData \in BOOLEAN
  /\ tz \in TZs
  /\ avail \in 1..MaxAvail
  /\ kind = "none"
  /\ body = NoBody
  /\ hpc = "idle"
  /\ responses = << >>
  /\ fault = FALSE
  /\ drv = "none"
  /\ args = NoArgs
  /\ dpc = "idle"
  /\ launches = 0
  /\ closes = 0
  /\ sitePage = 0
  /\ currentPage = 0
  /\ hasNextPage = "false"
  /\ allReviews = << >>
  /\ extracted = << >>
  /\ navFailedAt = 0
  /\ extractThrewAt = 0
  /\ locateThrew = "none"
  /\ urlIdx = 0
  /\ result = NoResult
  /\ spc = "idle"
  /\ siteResult = NoResult
  /\ writes = << >>
  /\ calc = NoCalc

(***************************************************************************)
(* POST /scrape-reviews: the synchronous part, up to the driver call.      *)
(***************************************************************************)
\* a chain whose final else runs a driver
SelectDriverDefaultG2(sourceLower) ==
  IF sourceLower = "capterra" THEN "capterra"
  ELSE IF sourceLower = "trustradius" THEN "trustradius"
  ELSE "g2"

\* the if / else-if chain on sourceLower
SelectDriver(sourceLower) ==
  IF sourceLower = "g2" THEN "g2"
  ELSE IF sourceLower = "capterra" THEN "capterra"
  ELSE IF sourceLower = "trustradius" THEN "trustradius"
  ELSE "none"

\* a validation that also rejects a range whose start is after its end
ReviewValidateOrdered(b, z) ==
  IF b.companyName = "absent" THEN "400"
  ELSE IF ~Truthy(b.startDate) \/ ~Truthy(b.endDate) THEN "400"
  ELSE IF b.source = "absent" THEN "400"
  ELSE IF b.startDate.t = "num" \/ b.endDate.t = "num" THEN "throw"
  ELSE IF parseDate(b.startDate.s, z, Clock) = Null
          \/ parseDate(b.endDate.s, z, Clock) = Null THEN "400"
  ELSE IF parseDate(b.startDate.s, z, Clock) > parseDate(b.endDate.s, z, Clock) THEN "400"
  ELSE IF b.source = "num" THEN "500"
  ELSE IF SelectDriver(toLowerCase(b.source)) = "none" THEN "400"
  ELSE "drive"

\* what the handler does with a body before its first await:
\*   "400"   a validation response
\*   "throw" an exception outside the try block (parseDate on a non-string)
\*   "500"   an exception inside the try block (source.toLowerCase)
\*   "drive" a driver is invoked
ReviewValidate(b, z) ==
  IF b.companyName = "absent" THEN "400"
  ELSE IF ~Truthy(b.startDate) \/ ~Truthy(b.endDate) THEN "400"
  ELSE IF b.source = "absent" THEN "400"
  ELSE IF b.startDate.t = "num" \/ b.endDate.t = "num" THEN "throw"
  ELSE IF parseDate(b.startDate.s, z, Clock) = Null
          \/ parseDate(b.endDate.s, z, Clock) = Null THEN "400"
  ELSE IF b.source = "num" THEN "500"
  ELSE IF SelectDriver(toLowerCase(b.source)) = "none" THEN "400"
  ELSE "drive"

\* the call of a driver: the code of the async function up to its first await
\* a call that does not consult the toggle and always takes the live path
InvokeAlwaysLive(d, a) ==
  /\ drv' = d
  /\ args' = a
  /\ result' = NoResult
  /\ dpc' = "launch"

Invoke(d, a) ==
  /\ drv' = d
  /\ args' = a
  /\ IF d = "g2" /\ useMockData
       THEN /\ result' = Success(FilterReviews(MockData, a.startDate, a.endDate, tz, Clock))
            /\ dpc' = "returned"
       ELSE /\ result' = NoResult
            /\ dpc' = "launch"

ReceiveReview ==
  /\ hpc = "idle"
  /\ \E cn \in NameFields, sd \in DateFields, ed \in DateFields, so \in SourceFields :
       LET b == [companyName |-> cn, startDate |-> sd, endDate |-> ed,
                 source |-> so, url |-> "absent"]
           v == ReviewValidate(b, tz)
       IN /\ kind' = "review"
          /\ body' = b
          /\ IF v = "drive"
               THEN /\ Invoke(SelectDriver(toLowerCase(so)),
                              [company |-> cn,
                               startDate |-> parseDate(sd.s, tz, Clock),
                               endDate |-> parseDate(ed.s, tz, Clock),
                               maxPages |-> DefaultMaxPages])
                    /\ hpc' = "await"
                    /\ UNCHANGED <<responses, fault>>
               ELSE /\ hpc' = IF v = "throw" THEN "crashed" ELSE "done"
                    /\ fault' = (v = "throw")
                    /\ responses' =
                         IF v = "400" THEN Append(responses, ValidationResponse)
                         ELSE IF v = "500" THEN Append(responses, FailureResponse(500))
                         ELSE responses
                    /\ UNCHANGED <<drv, args, dpc, result>>
  /\ UNCHANGED <<calc, writes, cfgVars, browserVars, loopVars, locateThrew, urlIdx, siteVars>>

(***************************************************************************)
(* A direct call of an exported driver, with an explicit page cap.         *)
(***************************************************************************)
DirectCall ==
  /\ hpc = "idle"
  /\ \E d \in {"g2", "capterra", "trustradius"}, mp \in 1..MaxCap,
        sd \in ReqDateStrs \ {Garbage}, ed \in ReqDateStrs \ {Garbage} :
       Invoke(d, [company |-> "str",
                  startDate |-> parseDate(sd, tz, Clock),
                  endDate |-> parseDate(ed, tz, Clock),
                  maxPages |-> mp])
  /\ kind' = "direct"
  /\ hpc' = "called"
  /\ UNCHANGED <<calc, writes, cfgVars, body, responses, fault, browserVars, loopVars,
                 locateThrew, urlIdx, siteVars>>


(***************************************************************************)
(* The review drivers.  scrapeCapterraReviews and scrapeTrustRadiusReviews *)
(* differ in Locate only; scrapeG2Reviews (with the toggle off) has its    *)
(* own Locate and its own pagination step.                                 *)
(***************************************************************************)
\* the source literal a driver writes into its reviews
SourceName(d) ==
  CASE d = "capterra" -> "Capterra"
    [] d = "trustradius" -> "TrustRadius"
    [] OTHER -> "G2"

\* the awaited operations inside the pagination loop (and the G2 screenshot
\* just before it) that can throw into the driver's catch
LoopSteps == {"screenshot", "wait", "extract", "probe"}

\* a catch block that reports an empty success
CatchAsEmpty(step) ==
  /\ result' = Success(<< >>)
  /\ dpc' = "finally"
  /\ locateThrew' = IF step \in LoopSteps THEN locateThrew ELSE step

\* catch (error) { return { success: false, error: error.message } }: the
\* message names the operation that threw; the return value is kept while
\* the finally block runs
Catch(step) ==
  /\ result' = Failure(step)
  /\ dpc' = "finally"
  /\ locateThrew' = IF step \in LoopSteps THEN locateThrew ELSE step

\* const browser = await puppeteer.launch(...), before the try block
Launch ==
  /\ dpc = "launch"
  /\ \/ /\ launches' = launches + 1
        /\ dpc' = "open"
        /\ UNCHANGED <<result, locateThrew>>
     \/ /\ result' = Rejected("error")
        /\ dpc' = "returned"
        /\ locateThrew' = "launch"
        /\ UNCHANGED launches
  /\ UNCHANGED <<calc, writes, cfgVars, reqVars, httpVars, callVars, closes, loopVars, urlIdx, siteVars>>

\* companyName.toLowerCase() of the TrustRadius and G2 drivers throws on a
\* company name that is not a string
NameThrows(d, company) == company = "num" /\ d \in {"trustradius", "g2"}

\* browser.newPage() and the page setup; for Capterra and TrustRadius also
\* the first page.goto (the search page, the direct product page)
OpenPage ==
  /\ dpc = "open"
  /\ \/ /\ ~NameThrows(drv, args.company)
        /\ dpc' = IF drv = "g2" THEN "g2try" ELSE "locate"
        /\ urlIdx' = IF drv = "g2" THEN 1 ELSE urlIdx
        /\ UNCHANGED <<result, locateThrew>>
     \/ /\ Catch("open")
        /\ UNCHANGED urlIdx
  /\ UNCHANGED <<calc, writes, cfgVars, reqVars, httpVars, callVars, browserVars, loopVars, siteVars>>

\* a product card of the Capterra search page: whether its product name
\* contains the company name, and whether it holds a reviews link
Cards == [match : BOOLEAN, link : BOOLEAN]

Listings == UNION { [1..n -> Cards] : n \in 0..MaxCards }

\* products.find(...) and the reviews link of the card found: TRUE when a
\* reviews URL is returned, FALSE for null
CapterraLocate(cards) ==
  LET hits == { i \in DOMAIN cards : cards[i].match }
  IN IF hits = {} THEN FALSE
     ELSE LET first == CHOOSE i \in hits : \A j \in hits : i <= j
          IN cards[first].link

\* productLinks.find(...) of the TrustRadius search page, over the links'
\* "text contains the name" flags
TrustRadiusLocate(links) == \E i \in DOMAIN links : links[i]

LinkLists == UNION { [1..n -> BOOLEAN] : n \in 0..MaxCards }

\* the loop variables as declared before the while loop
EnterLoop ==
  /\ allReviews' = << >>
  /\ currentPage' = 1
  /\ hasNextPage' = "true"
  /\ sitePage' = 1
  /\ UNCHANGED <<extracted, navFailedAt, extractThrewAt>>

\* a not-found return placed outside the try / finally
NotFoundNoClose ==
  /\ result' = Failure("notfound")
  /\ dpc' = "returned"
  /\ UNCHANGED locateThrew

\* a not-found branch that logs and lacks its return
NotFoundFallThrough ==
  /\ result' = Failure("notfound")
  /\ dpc' = "gotoReviews"
  /\ UNCHANGED locateThrew

\* if (!productFound) return { success: false, error: ... not found ... }
NotFound ==
  /\ result' = Failure("notfound")
  /\ dpc' = "finally"
  /\ UNCHANGED locateThrew

\* Capterra: the search-page evaluate; TrustRadius: the notFoundIndicator
\* evaluate.  name.toLowerCase() inside the Capterra evaluate throws on a
\* non-string name as soon as a card with a product name is visited.
Locate ==
  /\ dpc = "locate"
  /\ \/ /\ drv = "capterra"
        /\ \E cards \in Listings :
             /\ ~(args.company = "num" /\ cards # << >>)
             /\ IF CapterraLocate(cards)
                  THEN /\ dpc' = "gotoReviews"
                       /\ UNCHANGED <<result, locateThrew>>
                  ELSE NotFound
     \/ /\ drv = "trustradius"
        /\ \E notFoundIndicator \in BOOLEAN :
             dpc' = IF notFoundIndicator THEN "trSearch" ELSE "gotoReviews"
        /\ UNCHANGED <<result, locateThrew>>
     \/ Catch("locate")
  /\ UNCHANGED <<calc, writes, cfgVars, reqVars, httpVars, callVars, browserVars, loopVars, urlIdx,
                 siteVars>>

\* TrustRadius: page.goto(searchPageUrl) and the foundProductUrl evaluate
TrustRadiusSearch ==
  /\ dpc = "trSearch"
  /\ \/ \E links \in LinkLists :
          /\ ~(args.company = "num" /\ links # << >>)
          /\ IF TrustRadiusLocate(links)
               THEN /\ dpc' = "gotoReviews"
                    /\ UNCHANGED <<result, locateThrew>>
               ELSE NotFound
     \/ Catch("locate")
  /\ UNCHANGED <<calc, writes, cfgVars, reqVars, httpVars, callVars, browserVars, loopVars, urlIdx,
                 siteVars>>

\* while (hasNextPage && currentPage <= maxPages): a G2 probe object is
\* truthy whatever its hasNext member
LoopCond(hnp, cp, mp) == hnp # "false" /\ cp <= mp

\* the loop test, and after the loop the date filter and the success return
Continue(hnp, cp, all) ==
  IF LoopCond(hnp, cp, args.maxPages)
    THEN /\ dpc' = "extract"
         /\ UNCHANGED result
    ELSE /\ dpc' = "finally"
         /\ result' = Success(FilterReviews(all, args.startDate, args.endDate, tz, Clock))

\* Capterra, TrustRadius: the navigation to the reviews page
GotoReviews ==
  /\ dpc = "gotoReviews"
  /\ \/ /\ EnterLoop
        /\ Continue("true", 1, << >>)
        /\ UNCHANGED locateThrew
     \/ /\ Catch("goto")
        /\ UNCHANGED loopVars
  /\ UNCHANGED <<calc, writes, cfgVars, reqVars, httpVars, callVars, browserVars, urlIdx, siteVars>>

\* if (!foundValidPage) return { success: false, error: ... not found ... }
G2NotFound(seen) ==
  /\ result' = Failure("notfound")
  /\ dpc' = "finally"
  /\ locateThrew' = seen

\* the candidate URLs of the G2 driver (possibleUrls.length)
G2Urls == 3

\* G2: one round of the for loop over possibleUrls.  page.goto's rejection is
\* caught and logged; the hasReviews evaluate is not guarded.
G2TryUrl ==
  /\ dpc = "g2try"
  /\ \E navThrew \in BOOLEAN :
       LET seen == IF navThrew THEN "swallowed" ELSE locateThrew
       IN \/ \E hasReviews \in BOOLEAN :
               IF hasReviews
                 THEN /\ dpc' = "g2shot"
                      /\ locateThrew' = seen
                      /\ urlIdx' = 0
                      /\ UNCHANGED result
                 ELSE IF urlIdx < G2Urls
                   THEN /\ urlIdx' = urlIdx + 1
                        /\ locateThrew' = seen
                        /\ UNCHANGED <<result, dpc>>
                   ELSE /\ G2NotFound(seen)
                        /\ urlIdx' = 0
          \/ /\ Catch("locate")
             /\ urlIdx' = 0
  /\ UNCHANGED <<calc, writes, cfgVars, reqVars, httpVars, callVars, browserVars, loopVars, siteVars>>

\* G2: page.screenshot for debugging, then the loop variables
G2Screenshot ==
  /\ dpc = "g2shot"
  /\ \/ /\ EnterLoop
        /\ Continue("true", 1, << >>)
        /\ UNCHANGED locateThrew
     \/ /\ Catch("screenshot")
        /\ UNCHANGED loopVars
  /\ UNCHANGED <<calc, writes, cfgVars, reqVars, httpVars, callVars, browserVars, urlIdx, siteVars>>

\* page.waitForSelector(...).catch(...) (Capterra, TrustRadius): the wait
\* times out when the page shows no review container; the timeout is logged
WaitTimesOut(p) == PageItems(p) = << >>

\* a wait whose timeout is rethrown
AfterWaitFatal(timedOut) == IF timedOut THEN "throw" ELSE "extract"

\* .catch(() => console.log('Timeout waiting for review elements')): the
\* driver goes on to the extraction whether or not the wait timed out
AfterWait(timedOut) == "extract"

\* the wait (Capterra, TrustRadius), the extraction evaluate and
\* allReviews.push(...pageReviews)
Extract ==
  /\ dpc = "extract"
  /\ drv = "g2" => Len(extracted) < MaxRounds
  /\ IF drv # "g2" /\ AfterWait(WaitTimesOut(sitePage)) = "throw"
       THEN /\ Catch("wait")
            /\ UNCHANGED <<allReviews, extracted, extractThrewAt>>
       ELSE \/ /\ allReviews' = allReviews
                                  \o ExtractAll(PageItems(sitePage), SourceName(drv))
               /\ extracted' = Append(extracted, sitePage)
               /\ dpc' = "probe"
               /\ UNCHANGED <<result, locateThrew, extractThrewAt>>
            \/ /\ Catch("extract")
               /\ extractThrewAt' = currentPage
               /\ UNCHANGED <<allReviews, extracted>>
  /\ UNCHANGED <<calc, writes, cfgVars, reqVars, httpVars, callVars, browserVars, sitePage, currentPage,
                 hasNextPage, navFailedAt, urlIdx, siteVars>>

\* if (hasNextPage && currentPage < maxPages)
ShouldAdvance(hasNext, cp, mp) == hasNext /\ cp < mp

\* the next-control probe, and the else branch of "if (hasNextPage &&
\* currentPage < maxPages)" when no navigation is due
Probe ==
  /\ dpc = "probe"
  /\ \/ IF ShouldAdvance(NextControl(sitePage, avail), currentPage, args.maxPages)
          THEN /\ hasNextPage' = IF drv = "g2" THEN "objNext" ELSE "true"
               /\ dpc' = "advance"
               /\ UNCHANGED <<result, locateThrew>>
          ELSE /\ hasNextPage' = IF drv = "g2" THEN "objNoNext" ELSE "false"
               /\ Continue(hasNextPage', currentPage, allReviews)
               /\ UNCHANGED locateThrew
     \/ /\ Catch("probe")
        /\ UNCHANGED hasNextPage
  /\ UNCHANGED <<calc, writes, cfgVars, reqVars, httpVars, callVars, browserVars, sitePage, currentPage,
                 allReviews, extracted, navFailedAt, extractThrewAt, urlIdx, siteVars>>

\* a navigation catch that only logs
OnNavErrorLogOnly(hnp) == hnp

\* .catch(error => { console.error(...); hasNextPage = false; })
OnNavError(hnp) == "false"

\* a pagination step that forgets to count the page
NextPageNoStuck(cp) == cp

\* currentPage++
NextPageNo(cp) == cp + 1

\* Capterra, TrustRadius: Promise.all([click, waitForNavigation]).catch(...)
\* and currentPage++
Advance ==
  /\ dpc = "advance"
  /\ drv # "g2"
  /\ \/ /\ sitePage' = sitePage + 1
        /\ UNCHANGED <<hasNextPage, navFailedAt>>
     \/ /\ hasNextPage' = OnNavError(hasNextPage)
        /\ navFailedAt' = currentPage
        /\ UNCHANGED sitePage
  /\ currentPage' = NextPageNo(currentPage)
  /\ Continue(hasNextPage', currentPage', allReviews)
  /\ UNCHANGED <<calc, writes, cfgVars, reqVars, httpVars, callVars, browserVars, allReviews, extracted,
                 extractThrewAt, locateThrew, urlIdx, siteVars>>

\* G2: the click and navigation wait; on rejection the fallback (scroll,
\* delayed click, waitForTimeout), which may itself reject into the outer
\* catch.  A navigation that rejected may still have moved the browser.
G2Advance ==
  /\ dpc = "advance"
  /\ drv = "g2"
  /\ \/ /\ sitePage' = sitePage + 1
        /\ currentPage' = currentPage + 1
        /\ UNCHANGED <<hasNextPage, navFailedAt>>
     \/ \E moved \in BOOLEAN, fallbackThrew \in BOOLEAN :
          /\ sitePage' = IF moved THEN sitePage + 1 ELSE sitePage
          /\ navFailedAt' = currentPage
          /\ hasNextPage' = IF fallbackThrew THEN "objNoNext" ELSE hasNextPage
          /\ currentPage' = IF fallbackThrew THEN currentPage ELSE currentPage + 1
  /\ Continue(hasNextPage', currentPage', allReviews)
  /\ UNCHANGED <<calc, writes, cfgVars, reqVars, httpVars, callVars, browserVars, allReviews, extracted,
                 extractThrewAt, locateThrew, urlIdx, siteVars>>

\* finally { await browser.close() }, after which the promise settles
Finally ==
  /\ dpc = "finally"
  /\ closes' = closes + 1
  /\ dpc' = "returned"
  /\ UNCHANGED <<calc, writes, cfgVars, reqVars, httpVars, callVars, launches, loopVars, locateThrew,
                 urlIdx, result, siteVars>>


(***************************************************************************)
(* POST /scrape-reviews after the driver call.                             *)
(***************************************************************************)
\* what the handler does once the awaited driver promise has settled:
\*   "catch" the promise rejected, or companyName.replace threw
\*   "404"   success with no data
\*   "write" success with data: the file name is built and the write begins
\*   "500"   res.status(500).json(result)
AfterDriver(r, company) ==
  IF r.state = "rejected" THEN "catch"
  ELSE IF r.success
    THEN IF r.data = << >> THEN "404"
         ELSE IF company = "num" THEN "catch" ELSE "write"
  ELSE "500"

ReviewDriverDone ==
  /\ kind = "review"
  /\ hpc = "await"
  /\ dpc = "returned"
  /\ LET v == AfterDriver(result, body.companyName)
     IN IF v = "write"
          THEN /\ hpc' = "write"
               /\ UNCHANGED responses
          ELSE /\ hpc' = "done"
               /\ responses' =
                    Append(responses, FailureResponse(IF v = "404" THEN 404 ELSE 500))
  /\ UNCHANGED <<calc, writes, cfgVars, reqVars, fault, callVars, dpc, browserVars, loopVars,
                 locateThrew, urlIdx, result, siteVars>>

\* await fs.writeFile(...), then the success response; a failed write goes
\* to the handler's catch
\* a handler that sends the success response without awaiting the write
ReviewWriteNotAwaited ==
  /\ hpc = "write"
  /\ \E outcome \in {"written", "failed"} :
       writes' = Append(writes, [data |-> result.data, outcome |-> outcome])
  /\ responses' = Append(responses, ReviewSuccessResponse(result.data))
  /\ hpc' = "done"
  /\ UNCHANGED <<calc, cfgVars, reqVars, fault, callVars, dpc, browserVars, loopVars,
                 locateThrew, urlIdx, result, siteVars>>

ReviewWrite ==
  /\ hpc = "write"
  /\ \/ /\ writes' = Append(writes, [data |-> result.data, outcome |-> "written"])
        /\ responses' = Append(responses, ReviewSuccessResponse(result.data))
     \/ /\ writes' = Append(writes, [data |-> result.data, outcome |-> "failed"])
        /\ responses' = Append(responses, FailureResponse(500))
  /\ hpc' = "done"
  /\ UNCHANGED <<calc, cfgVars, reqVars, fault, callVars, dpc, browserVars, loopVars,
                 locateThrew, urlIdx, result, siteVars>>

(***************************************************************************)
(* POST /scrape and scrapeSite.                                            *)
(***************************************************************************)
UrlFields == {"absent", "num", "str"}

\* the items scrapeSite's extraction may return on a page
SiteData == { << >>, << 1 >>, << 1, 2 >> }

ReceiveGeneric ==
  /\ hpc = "idle"
  /\ \E u \in UrlFields :
       /\ body' = [NoBody EXCEPT !.url = u]
       /\ IF u = "absent"
            THEN /\ responses' = Append(responses, ValidationResponse)
                 /\ hpc' = "done"
                 /\ UNCHANGED spc
            ELSE /\ hpc' = "awaitSite"
                 /\ spc' = "launch"
                 /\ UNCHANGED responses
  /\ kind' = "generic"
  /\ UNCHANGED <<calc, writes, cfgVars, fault, callVars, dpc, browserVars, loopVars, locateThrew,
                 urlIdx, result, siteResult>>

\* scrapeSite has no try block: an exception rejects its promise at once
SiteThrow ==
  /\ siteResult' = Rejected("error")
  /\ spc' = "returned"

\* const browser = await puppeteer.launch(...)
SiteLaunch ==
  /\ spc = "launch"
  /\ \/ /\ launches' = launches + 1
        /\ spc' = "setup"
        /\ UNCHANGED siteResult
     \/ /\ SiteThrow
        /\ UNCHANGED launches
  /\ UNCHANGED <<calc, writes, cfgVars, reqVars, httpVars, callVars, dpc, closes, loopVars, locateThrew,
                 urlIdx, result>>

\* newPage, user agent, viewport, request interception, goto, the settle
\* delay and the three scrolls
SiteSetup ==
  /\ spc = "setup"
  /\ \/ /\ spc' = "extract"
        /\ UNCHANGED siteResult
     \/ SiteThrow
  /\ UNCHANGED <<calc, writes, cfgVars, reqVars, httpVars, callVars, dpc, browserVars, loopVars,
                 locateThrew, urlIdx, result>>

\* the extraction evaluate (selector-driven or automatic)
SiteExtract ==
  /\ spc = "extract"
  /\ \/ \E data \in SiteData :
          /\ siteResult' = Success(data)
          /\ spc' = IF data = << >> THEN "screenshot" ELSE "close"
     \/ SiteThrow
  /\ UNCHANGED <<calc, writes, cfgVars, reqVars, httpVars, callVars, dpc, browserVars, loopVars,
                 locateThrew, urlIdx, result>>

\* if (result.length === 0) await page.screenshot(...)
SiteScreenshot ==
  /\ spc = "screenshot"
  /\ \/ /\ spc' = "close"
        /\ UNCHANGED siteResult
     \/ SiteThrow
  /\ UNCHANGED <<calc, writes, cfgVars, reqVars, httpVars, callVars, dpc, browserVars, loopVars,
                 locateThrew, urlIdx, result>>

\* await browser.close(); return result
SiteClose ==
  /\ spc = "close"
  /\ closes' = closes + 1
  /\ spc' = "returned"
  /\ UNCHANGED <<calc, writes, cfgVars, reqVars, httpVars, callVars, dpc, launches, loopVars,
                 locateThrew, urlIdx, result, siteResult>>

\* a handler that sends whatever scrapeSite returned as a success
AfterSiteNoEmptyCheck(r) ==
  IF r.state = "rejected" THEN FailureResponse(500)
  ELSE SuccessResponse(r.data)

\* the handler after "await scrapeSite(url, selectors)"
AfterSite(r) ==
  IF r.state = "rejected" THEN FailureResponse(500)
  ELSE IF r.data = << >> THEN FailureResponse(404)
  ELSE SuccessResponse(r.data)

GenericDone ==
  /\ hpc = "awaitSite"
  /\ spc = "returned"
  /\ responses' = Append(responses, AfterSite(siteResult))
  /\ hpc' = "done"
  /\ UNCHANGED <<calc, writes, cfgVars, reqVars, fault, callVars, dpc, browserVars, loopVars,
                 locateThrew, urlIdx, result, siteVars>>

Next ==
  \/ ReceiveReview
  \/ DirectCall
  \/ Launch
  \/ OpenPage
  \/ Locate
  \/ TrustRadiusSearch
  \/ GotoReviews
  \/ G2TryUrl
  \/ G2Screenshot
  \/ Extract
  \/ Probe
  \/ Advance
  \/ G2Advance
  \/ Finally
  \/ ReviewDriverDone
  \/ ReviewWrite
  \/ ReceiveGeneric
  \/ SiteLaunch
  \/ SiteSetup
  \/ SiteExtract
  \/ SiteScreenshot
  \/ SiteClose
  \/ GenericDone

Spec == Init /\ [][Next]_vars

(***************************************************************************)
(* The functions of the code applied on their own: one behaviour is one    *)
(* application to arguments drawn from the sets below, on a host with the  *)
(* time zone tz.  No request is in flight.                                 *)
(***************************************************************************)
runVars == <<writes, cfgVars, reqVars, httpVars, callVars, dpc, browserVars, loopVars,
             locateThrew, urlIdx, result, siteVars>>

\* the Date arguments tried: the instants 0..MaxInstant, and null
DateArgs == (0..MaxInstant) \cup {Null}

(***************************************************************************)
(* Page text.  A string is kept as its leading white space, the length of  *)
(* what trim() leaves, its trailing white space, and an id standing for    *)
(* the characters left; the empty string has id 0.                         *)
(***************************************************************************)
Text(lead, core, trail, id) == [lead |-> lead, core |-> core, trail |-> trail, id |-> id]

EmptyText == Text(0, 0, 0, 0)

\* String.prototype.trim
trim(t) == IF t.core = 0 THEN EmptyText ELSE Text(0, t.core, 0, t.id)

\* String.prototype.length
length(t) == t.lead + t.core + t.trail

\* truthiness of a string
NonEmpty(t) == length(t) > 0

\* an element: its tagName, the class a selector of the model matches, and
\* its innerText
Node(tagName, cls, innerText) == [tagName |-> tagName, cls |-> cls, innerText |-> innerText]

\* the descendants, in document order, of the i-th element matched by the
\* root selector; the text ids of container i are 10 * i + 1 ..
ContainerAt(shape, i) ==
  CASE shape = 1 -> << Node("SPAN", ".t", Text(1, 2, 1, 10 * i + 1)),
                       Node("SPAN", ".d", Text(0, 3, 0, 10 * i + 2)),
                       Node("SPAN", ".date", Text(0, 1, 0, 10 * i + 3)),
                       Node("SPAN", ".r", Text(0, 1, 2, 10 * i + 4)) >>
    [] shape = 2 -> << Node("SPAN", ".d", Text(0, 3, 0, 10 * i + 1)) >>
    [] shape = 3 -> << Node("SPAN", ".t", Text(1, 0, 0, 0)),
                       Node("SPAN", ".d", EmptyText),
                       Node("SPAN", ".r", Text(0, 1, 0, 10 * i + 3)) >>
    [] shape = 4 -> << Node("SPAN", ".t", Text(0, 2, 0, 10 * i + 1)),
                       Node("SPAN", ".t", Text(0, 2, 0, 10 * i + 2)),
                       Node("SPAN", ".x", Text(2, 1, 0, 10 * i + 3)) >>
    [] shape = 5 -> << Node("SPAN", ".x", Text(0, 1, 0, 10 * i + 1)),
                       Node("SPAN", ".r", Text(1, 1, 1, 10 * i + 2)) >>
    [] OTHER     -> << >>

ContainerShapes == 1..6

\* the pages tried: the sibling elements that document.querySelectorAll(root)
\* returns, each given by its descendants
SelectorPages ==
  UNION { { [i \in 1..n |-> ContainerAt(f[i], i)] : f \in [1..n -> ContainerShapes] }
          : n \in 0..MaxContainers }

\* the selector mappings tried; "" is a field left unset
SelectorMaps ==
  [title : {"", ".t", ".x"}, description : {"", ".d", ".x"}, date : {"", ".date"},
   rating : {"", ".r"}]

\* Element.querySelector(sel) on the element with these descendants: the
\* first match in document order, or no element (an empty sequence)
querySelector(descendants, sel) ==
  LET hits == SelectSeq(descendants, LAMBDA el : el.cls = sel)
  IN IF hits = << >> THEN << >> ELSE << Head(hits) >>

\* s.f ? item.querySelector(s.f) : null, then el?.innerText.trim() || ""
FieldText(descendants, sel) ==
  LET el == IF sel # "" THEN querySelector(descendants, sel) ELSE << >>
  IN IF el = << >> THEN EmptyText
     ELSE IF NonEmpty(trim(el[1].innerText)) THEN trim(el[1].innerText)
     ELSE EmptyText

RECURSIVE Flatten(_)
\* the descendants of all matched elements, in document order
Flatten(page) == IF page = << >> THEN << >> ELSE Head(page) \o Flatten(Tail(page))

\* an item whose fields are queried on the whole document instead of on the
\* item's own element
SelectorItemDocumentScoped(page, i, s) ==
  LET all == Flatten(page)
  IN [title |-> FieldText(all, s.title),
      description |-> FieldText(all, s.description),
      date |-> FieldText(all, s.date),
      rating |-> FieldText(all, s.rating)]

\* the object the map callback returns for the i-th matched element
SelectorItem(page, i, s) ==
  [title |-> FieldText(page[i], s.title),
   description |-> FieldText(page[i], s.description),
   date |-> FieldText(page[i], s.date),
   rating |-> FieldText(page[i], s.rating)]

\* a filter that keeps only the items with a title
HasTitle(item) == NonEmpty(item.title)

\* .filter(item => item.title || item.description)
HasTitleOrDescription(item) == NonEmpty(item.title) \/ NonEmpty(item.description)

\* the selector-driven page.evaluate: map over the matched elements, filter
ExtractSelectors(page, s) ==
  SelectSeq([i \in DOMAIN page |-> SelectorItem(page, i, s)], HasTitleOrDescription)

ApplyExtractSelectors ==
  /\ calc.op = "none"
  /\ \E page \in SelectorPages, s \in SelectorMaps :
       calc' = [op |-> "extractSelectors", page |-> page, s |-> s,
                out |-> ExtractSelectors(page, s)]
  /\ UNCHANGED runVars

\* item.text.length > 80
AutoThreshold == 80

\* the innerText of the i-th candidate node: around the threshold, with and
\* without surrounding white space
BlockText(k, i) ==
  CASE k = 1 -> Text(0, 40, 0, i)
    [] k = 2 -> Text(1, 80, 1, i)
    [] k = 3 -> Text(0, 81, 0, i)
    [] k = 4 -> Text(2, 81, 0, i)
    [] OTHER -> Text(0, 78, 3, i)

\* the candidate nodes tried: each tagName that "p, div, article, h1, h2,
\* h3" selects, with texts on both sides of the threshold
Blocks ==
  { << "P", 1 >>, << "P", 2 >>, << "P", 3 >>, << "DIV", 4 >>, << "DIV", 5 >>,
    << "ARTICLE", 2 >>, << "ARTICLE", 3 >>, << "H1", 2 >>, << "H1", 3 >>,
    << "H2", 1 >>, << "H2", 4 >>, << "H3", 3 >>, << "H3", 5 >> }

\* the pages tried: the candidate nodes in document order
AutoPages ==
  UNION { { [i \in 1..n |-> Node(b[i][1], "", BlockText(b[i][2], i))] :
              b \in [1..n -> Blocks] }
          : n \in 0..MaxBlocks }

\* String.prototype.startsWith('h') on the lower-cased tag names
StartsWithH(tag) == tag \in {"h1", "h2", "h3"}

\* a length filter that also keeps the text of exactly the threshold length
IsLongInclusive(item) == length(item.text) >= AutoThreshold

\* .filter(item => item.text.length > 80)
IsLong(item) == length(item.text) > AutoThreshold

\* the automatic page.evaluate: map to { text, tag }, filter by length, map
\* to { title, description } by tag, filter
ExtractAuto(blocks) ==
  LET items == [i \in DOMAIN blocks |->
                  [text |-> trim(blocks[i].innerText),
                   tag |-> toLowerCase(blocks[i].tagName)]]
      long == SelectSeq(items, IsLong)
      shaped == [k \in DOMAIN long |->
                   IF StartsWithH(long[k].tag)
                     THEN [title |-> long[k].text, description |-> EmptyText]
                     ELSE [title |-> EmptyText, description |-> long[k].text]]
  IN SelectSeq(shaped, HasTitleOrDescription)

ApplyExtractAuto ==
  /\ calc.op = "none"
  /\ \E blocks \in AutoPages :
       calc' = [op |-> "extractAuto", blocks |-> blocks, out |-> ExtractAuto(blocks)]
  /\ UNCHANGED runVars

(***************************************************************************)
(* The extraction step of scrapeSite as a whole: the choice of the mode,   *)
(* the root query and the mode's page.evaluate.  A selector value is ""    *)
(* (the key is missing or empty), " " (white space only) or a class        *)
(* selector of the model.                                                  *)
(***************************************************************************)
SelectorFields == {"root", "title", "description", "date", "rating"}

\* String.prototype.trim on a selector value
trimSelector(v) == IF v = " " THEN "" ELSE v

\* the selectors argument: given is false for a call without a mapping
\* (null or undefined); an empty mapping has every value ""
ScrapeSelectors ==
  [given : BOOLEAN, root : {"", " ", ".item"}, title : {"", " ", ".t"},
   description : {"", ".d"}, date : {""}, rating : {"", " "}]

\* the documents tried: the elements of class item with their descendants,
\* and the candidate nodes of the automatic mode
ScrapeDocuments ==
  [containers : SelectorPages,
   blocks : { << >>, << Node("H1", "", BlockText(3, 1)), Node("P", "", BlockText(4, 2)),
                        Node("DIV", "", BlockText(1, 3)) >> }]

\* a mode test that looks at the mapping only, not at its values
ExtractionModeAnyMapping(sel) == IF sel.given THEN "selectors" ELSE "auto"

\* if (selectors && Object.values(selectors).some(s => s && s.trim() !== ''))
ExtractionMode(sel) ==
  IF sel.given /\ \E f \in SelectorFields : sel[f] # "" /\ trimSelector(sel[f]) # ""
    THEN "selectors" ELSE "auto"

\* s.root || "body"
RootSelector(sel) == IF sel.root # "" THEN sel.root ELSE "body"

\* document.querySelectorAll(rootSelector): the elements of class item, or
\* the body element, whose descendants are all of them in document order
querySelectorAll(doc, rootSelector) ==
  IF rootSelector = "body" THEN << Flatten(doc.containers) >> ELSE doc.containers

\* the extraction step: which page.evaluate ran, whether a query threw a
\* SyntaxError (a selector of white space only is not a valid selector: the
\* root query throws whatever the page, a field query throws once an item
\* is mapped), and the items returned
ScrapeExtract(sel, doc) ==
  IF ExtractionMode(sel) = "auto"
    THEN [mode |-> "auto", threw |-> FALSE, items |-> ExtractAuto(doc.blocks)]
  ELSE IF RootSelector(sel) = " "
    THEN [mode |-> "selectors", threw |-> TRUE, items |-> << >>]
  ELSE LET items == querySelectorAll(doc, RootSelector(sel))
       IN IF items # << >> /\ \E f \in SelectorFields \ {"root"} : sel[f] = " "
            THEN [mode |-> "selectors", threw |-> TRUE, items |-> << >>]
            ELSE [mode |-> "selectors", threw |-> FALSE,
                  items |-> ExtractSelectors(items, sel)]

\* the search-page evaluate of the Capterra driver on one listing
ApplyCapterraLocate ==
  /\ calc.op = "none"
  /\ \E cards \in Listings :
       calc' = [op |-> "capterraLocate", cards |-> cards, out |-> CapterraLocate(cards)]
  /\ UNCHANGED runVars

ApplyScrapeExtract ==
  /\ calc.op = "none"
  /\ \E sel \in ScrapeSelectors, doc \in ScrapeDocuments :
       calc' = [op |-> "scrapeExtract", sel |-> sel, doc |-> doc,
                out |-> ScrapeExtract(sel, doc)]
  /\ UNCHANGED runVars

\* the reference instants tried: noon UTC of 1 July 2025 and of 29 February
\* 2024, and the last hour UTC of 31 March and of 31 December 2025
Clocks ==
  { Clock, DaysFromCivil(2024, 2, 29) * 24 + 12, DaysFromCivil(2025, 3, 31) * 24 + 23,
    DaysFromCivil(2025, 12, 31) * 24 + 23 }

\* the strings parseDate is applied to
ParseStrs ==
  { EmptyStr, Garbage,
    DStr("iso", 2025, 6, 30), DStr("iso", 2025, 1, 1), DStr("iso", 2024, 2, 29),
    DStr("iso", 2025, 12, 31),
    DStr("name", 2025, 6, 30), DStr("name", 2025, 0, 12),
    DStr("ymd", 2024, 12, 31), DStr("dmy", 2024, 12, 31), DStr("dmy", 2025, 4, 3),
    DStr("ymd", 2025, 13, 1), DStr("iso", 2025, 13, 1), DStr("ymd", 2025, 2, 30),
    DStr("dmy", 2025, 2, 31), DStr("dmy", 2025, 4, 31) }
    \cup { DStr("rel", n, unit, 0) : n \in 0..MaxAgo, unit \in 1..4 }

\* parseDate(s) at the instant now, and formatDate of what it returned
ApplyParseDate ==
  /\ calc.op = "none"
  /\ \E s \in ParseStrs, now \in Clocks :
       calc' = [op |-> "parseDate", s |-> s, now |-> now,
                out |-> parseDate(s, tz, now),
                formatted |-> formatDate(parseDate(s, tz, now), tz)]
  /\ UNCHANGED runVars

ApplyIsDateInRange ==
  /\ calc.op = "none"
  /\ \E date \in DateArgs, startDate \in DateArgs, endDate \in DateArgs :
       calc' = [op |-> "isDateInRange", date |-> date, startDate |-> startDate,
                endDate |-> endDate,
                out |-> isDateInRange(date, startDate, endDate)]
  /\ UNCHANGED runVars

PureInit == Init /\ useMockData /\ avail = 1

PureNext ==
  \/ ApplyIsDateInRange
  \/ ApplyExtractSelectors
  \/ ApplyExtractAuto
  \/ ApplyParseDate
  \/ ApplyScrapeExtract
  \/ ApplyCapterraLocate

PureSpec == PureInit /\ [][PureNext]_vars


(***************************************************************************)
(* Properties.                                                             *)
(***************************************************************************)
Min(a, b) == IF a <= b THEN a ELSE b

\* the fields name a day of the calendar
ValidYMD(y, m, d) == m \in 1..12 /\ d \in 1..DaysInMonth(y, m)

Paginated == drv \in {"capterra", "trustradius"}

Ended == dpc \in {"finally", "returned"}

RECURSIVE PagesUpTo(_, _)
\* the reviews of pages 1..n of the result set, page after page
PagesUpTo(n, src) ==
  IF n = 0 THEN << >>
  ELSE PagesUpTo(n - 1, src) \o [i \in DOMAIN PageItems(n) |-> Review(PageItems(n)[i], src)]

\* a review's date parses and lies in the closed range of the run
Qualifies(r) ==
  LET d == parseDate(r.date, tz, Clock)
  IN d # Null /\ args.startDate <= d /\ d <= args.endDate

InRangeOf(all) == SelectSeq(all, Qualifies)

\* C1: in the Capterra and TrustRadius drivers Extract never runs on more
\* than maxPages pages, and a run whose navigations all succeeded and that
\* returned success has extracted exactly pages 1..min(maxPages, avail) and
\* accumulated exactly their reviews, in page order.
C1_PageCap ==
  Paginated =>
    /\ Len(extracted) <= args.maxPages
    /\ (Ended /\ result.success /\ navFailedAt = 0) =>
         /\ extracted = [i \in 1..Min(args.maxPages, avail) |-> i]
         /\ allReviews = PagesUpTo(Min(args.maxPages, avail), SourceName(drv))

\* a run with cap 2 over a 3-page result set that stopped after page 2
C1_Witness ==
  /\ drv = "capterra"
  /\ dpc = "returned"
  /\ result.success
  /\ navFailedAt = 0
  /\ args.maxPages = 2
  /\ avail = 3
  /\ extracted = << 1, 2 >>
  /\ Len(allReviews) = Len(PageItems(1)) + Len(PageItems(2))

\* C2: in the Capterra and TrustRadius drivers, once the navigation from
\* page k to page k+1 has thrown, the run ends without another Extract and
\* its result is success with the date-filtered reviews of pages 1..k.
C2_PartialOnNavFailure ==
  (Paginated /\ navFailedAt # 0) =>
    /\ Ended
    /\ result.state = "value"
    /\ result.success
    /\ extracted = [i \in 1..navFailedAt |-> i]
    /\ allReviews = PagesUpTo(navFailedAt, SourceName(drv))
    /\ result.data = InRangeOf(PagesUpTo(navFailedAt, SourceName(drv)))

\* the navigation to page 3 failed and the reviews of pages 1-2 came back
C2_Witness ==
  /\ drv = "trustradius"
  /\ dpc = "returned"
  /\ navFailedAt = 2
  /\ result.success
  /\ \E i \in DOMAIN result.data : result.data[i].id = 21
  /\ \E i \in DOMAIN result.data : result.data[i].id = 11


\* C3: every request to either endpoint ends in exactly one response, and
\* no exception leaves a request handler.
C3_OneResponseNoFault ==
  kind \in {"review", "generic"} =>
    /\ ~fault
    /\ Len(responses) <= 1
    /\ hpc \in {"done", "crashed"} => Len(responses) = 1

\* C4: a review driver acquires at most one session, keeps it open while it
\* runs, and has closed it exactly once when its result is delivered,
\* whichever way the run ended.
C4_SessionClosedOnce ==
  kind \in {"review", "direct"} =>
    /\ launches <= 1
    /\ closes <= launches
    /\ dpc = "returned" => closes = launches
    /\ dpc # "returned" => closes = 0

\* a G2 run that threw after it had acquired its session
C4_Witness ==
  /\ drv = "g2"
  /\ dpc = "returned"
  /\ result.error = "probe"
  /\ result.state = "value"
  /\ launches = 1
  /\ closes = 1

\* C5: when scrapeSite's promise has settled, the session it acquired is
\* closed.
C5_SiteSessionClosed ==
  (kind = "generic" /\ spc = "returned") => closes = launches

\* the reviews the filter ran over
Accumulated == IF drv = "g2" /\ useMockData THEN MockData ELSE allReviews

\* C6: the data of a success result holds exactly the accumulated reviews
\* whose date parses and lies in [startDate, endDate]: nothing else is in
\* it, none of them is missing or repeated, and a review with an
\* unparseable date is left out without failing the run.
C6_FilteredExactly ==
  (drv # "none" /\ result.state = "value" /\ result.success) =>
    /\ \A i \in DOMAIN result.data :
         /\ parseDate(result.data[i].date, tz, Clock) # Null
         /\ isDateInRange(parseDate(result.data[i].date, tz, Clock),
                          args.startDate, args.endDate)
         /\ \E j \in DOMAIN Accumulated : Accumulated[j] = result.data[i]
    /\ \A j \in DOMAIN Accumulated :
         Qualifies(Accumulated[j]) =>
           \E i \in DOMAIN result.data : result.data[i] = Accumulated[j]
    /\ Len(result.data) =
         Cardinality({ j \in DOMAIN Accumulated : Qualifies(Accumulated[j]) })

\* a success whose accumulator held reviews with unparseable dates next to
\* reviews that were kept
C6_Witness ==
  /\ Paginated
  /\ dpc = "returned"
  /\ result.success
  /\ \E j \in DOMAIN allReviews : parseDate(allReviews[j].date, tz, Clock) = Null
  /\ \E j \in DOMAIN allReviews :
       /\ parseDate(allReviews[j].date, tz, Clock) # Null
       /\ ~Qualifies(allReviews[j])
  /\ result.data # << >>

\* C7: every response of the review endpoint that is not a success has a
\* success member equal to false and an error member.
C7_FailureShape ==
  kind = "review" =>
    \A i \in DOMAIN responses :
      responses[i].success # "true" =>
        responses[i].success = "false" /\ responses[i].error

\* a body the review endpoint is specified to reject: a field missing, a
\* date string that does not parse, a source string outside the three
RejectedBody(b) ==
  \/ b.companyName = "absent"
  \/ ~Truthy(b.startDate)
  \/ ~Truthy(b.endDate)
  \/ b.source = "absent"
  \/ b.startDate.t = "str" /\ parseDate(b.startDate.s, tz, Clock) = Null
  \/ b.endDate.t = "str" /\ parseDate(b.endDate.s, tz, Clock) = Null
  \/ b.source \notin {"num", "g2", "Capterra", "TrustRadius"}

\* C8: a review request with such a body, or with a date or source that is
\* not a string, never invokes a driver, acquires no session and navigates
\* nowhere; a body of the first kind is answered 400 in the same step.  A
\* generic request without url never calls scrapeSite.
C8_RejectedBeforeNavigation ==
  /\ (kind = "review"
       /\ (RejectedBody(body) \/ body.source = "num"
            \/ body.startDate.t = "num" \/ body.endDate.t = "num")) =>
       /\ drv = "none"
       /\ dpc = "idle"
       /\ launches = 0
       /\ sitePage = 0
       /\ hpc \in {"done", "crashed"}
  /\ (kind = "review" /\ RejectedBody(body)
       /\ (body.companyName = "absent"
            \/ (body.startDate.t # "num" /\ body.endDate.t # "num"))) =>
       responses = << ValidationResponse >>
  /\ (kind = "generic" /\ body.url = "absent") =>
       /\ spc = "idle"
       /\ launches = 0
       /\ responses = << ValidationResponse >>

\* an unsupported source, every other field valid, answered 400
C8_Witness ==
  /\ kind = "review"
  /\ hpc = "done"
  /\ body.source = "yelp"
  /\ body.companyName = "str"
  /\ body.startDate = Field("str", DStr("iso", 2025, 1, 1))
  /\ body.endDate = Field("str", DStr("iso", 2025, 6, 30))
  /\ responses = << ValidationResponse >>
  /\ launches = 0

\* C9: a run whose Locate step found no review page ends with a failure
\* result and has performed no Extract and no Paginate step: the browser
\* never showed a result page, nothing was accumulated, and the endpoint
\* answers with a failure.
C9_NotFoundIsTerminal ==
  result.error = "notfound" =>
    /\ result.state = "value"
    /\ ~result.success
    /\ Ended
    /\ extracted = << >>
    /\ allReviews = << >>
    /\ sitePage = 0
    /\ currentPage = 0
    /\ navFailedAt = 0
    /\ launches = 1
    /\ \A i \in DOMAIN responses : responses[i] = FailureResponse(500)

\* TrustRadius: the direct URL and the search both failed to locate
C9_Witness ==
  /\ drv = "trustradius"
  /\ kind = "review"
  /\ hpc = "done"
  /\ result.error = "notfound"
  /\ responses = << FailureResponse(500) >>
  /\ closes = 1

C11_ExtractErrorContained ==
  (Paginated /\ extractThrewAt > 1) =>
    /\ result.state = "value" => result.success
    /\ (Ended /\ result.success) =>
         \A i \in 1..(extractThrewAt - 1) :
           \A j \in DOMAIN InRangeOf(PagesUpTo(i, SourceName(drv))) :
             \E k \in DOMAIN result.data :
               result.data[k] = InRangeOf(PagesUpTo(i, SourceName(drv)))[j]

\* C12: for all instants d, s, e, isDateInRange(d, s, e) is true exactly
\* when s <= d <= e: both boundaries are in range, and no d is in range
\* when s > e.
C12_ClosedRange ==
  (/\ calc.op = "isDateInRange"
   /\ calc.date # Null /\ calc.startDate # Null /\ calc.endDate # Null) =>
    /\ calc.out <=> (calc.startDate <= calc.date /\ calc.date <= calc.endDate)
    /\ (calc.startDate <= calc.endDate
          /\ calc.date \in {calc.startDate, calc.endDate}) => calc.out
    /\ calc.startDate > calc.endDate => ~calc.out

\* the start instant itself, strictly before the end, tested in range
C12_Witness ==
  /\ calc.op = "isDateInRange"
  /\ calc.date = calc.startDate
  /\ calc.date # Null
  /\ calc.endDate > calc.startDate
  /\ calc.out

\* C13: a POST /scrape request that reached scrapeSite is answered 404
\* { success: false, error } when scrapeSite returned an empty result, 500
\* { success: false, error } when scrapeSite threw, and otherwise
\* { success: true, data } with the non-empty data returned; a success
\* response never carries empty data.
C13_GenericOutcome ==
  (kind = "generic" /\ body.url # "absent") =>
    /\ \A i \in DOMAIN responses :
         responses[i].success = "true" => responses[i].data # << >>
    /\ hpc = "done" =>
         /\ Len(responses) = 1
         /\ siteResult.state = "rejected" =>
              /\ responses[1].status = 500
              /\ responses[1].success = "false"
              /\ responses[1].error
         /\ (siteResult.state = "value" /\ siteResult.data = << >>) =>
              /\ responses[1].status = 404
              /\ responses[1].success = "false"
              /\ responses[1].error
         /\ (siteResult.state = "value" /\ siteResult.data # << >>) =>
              /\ responses[1].status = 200
              /\ responses[1].success = "true"
              /\ responses[1].data = siteResult.data

\* scrapeSite returned no item and the request was answered 404
C13_Witness ==
  /\ kind = "generic"
  /\ hpc = "done"
  /\ closes = 1
  /\ siteResult = Success(<< >>)
  /\ responses = << FailureResponse(404) >>

\* the trimmed text of the first descendant of a container that matches sel,
\* the empty string when sel is unset or matches no descendant
FirstMatchText(container, sel) ==
  LET idx == { j \in DOMAIN container : container[j].cls = sel }
  IN IF sel = "" \/ idx = {} THEN EmptyText
     ELSE trim(container[CHOOSE j \in idx : \A k \in idx : j <= k].innerText)

ExpectedItem(container, s) ==
  [title |-> FirstMatchText(container, s.title),
   description |-> FirstMatchText(container, s.description),
   date |-> FirstMatchText(container, s.date),
   rating |-> FirstMatchText(container, s.rating)]

\* C14: selector-driven extraction returns, for the root-matched containers
\* in order, the item whose title, description, date and rating are each the
\* trimmed text of the container's first descendant matching the field's
\* selector ("" when the selector is unset or matches nothing), keeping
\* exactly the containers whose title or description is non-empty.
C14_SelectorExtraction ==
  calc.op = "extractSelectors" =>
    LET exp == [i \in DOMAIN calc.page |-> ExpectedItem(calc.page[i], calc.s)]
        kept == { i \in DOMAIN exp :
                    exp[i].title # EmptyText \/ exp[i].description # EmptyText }
    IN /\ Len(calc.out) = Cardinality(kept)
       /\ calc.out = SelectSeq(exp, LAMBDA it : it.title # EmptyText
                                                 \/ it.description # EmptyText)

\* a container without a title element but with a description was emitted
\* with title "", next to a container dropped for having neither
C14_Witness ==
  /\ calc.op = "extractSelectors"
  /\ calc.s.title = ".t"
  /\ calc.s.description = ".d"
  /\ Len(calc.page) = 2
  /\ calc.page[1] = ContainerAt(3, 1)
  /\ calc.page[2] = ContainerAt(2, 2)
  /\ Len(calc.out) = 1
  /\ calc.out[1].title = EmptyText
  /\ calc.out[1].description = Text(0, 3, 0, 21)

ItemFields == {"title", "description", "date", "rating"}

\* the containers (text id \div 10) the non-empty fields of an item come from
Owners(item) == { item[f].id \div 10 : f \in { g \in ItemFields : item[g] # EmptyText } }

\* C15: on a page whose root-matched containers are siblings, all fields of
\* an emitted item come from elements of one container, and the items
\* follow the order of their containers: no item pairs fields of two
\* containers and no container's text shows up in another item.
C15_FieldIsolation ==
  calc.op = "extractSelectors" =>
    /\ \A k \in DOMAIN calc.out :
         /\ Cardinality(Owners(calc.out[k])) = 1
         /\ \A f \in ItemFields :
              calc.out[k][f] # EmptyText =>
                \E i \in DOMAIN calc.page : \E j \in DOMAIN calc.page[i] :
                  /\ i \in Owners(calc.out[k])
                  /\ trim(calc.page[i][j].innerText) = calc.out[k][f]
    /\ \A k \in DOMAIN calc.out : \A l \in DOMAIN calc.out :
         k < l => \A a \in Owners(calc.out[k]) : \A b \in Owners(calc.out[l]) : a < b

\* two sibling containers with all four fields, each emitted with its own
C15_Witness ==
  /\ calc.op = "extractSelectors"
  /\ calc.s = [title |-> ".t", description |-> ".d", date |-> ".date", rating |-> ".r"]
  /\ Len(calc.page) = 2
  /\ calc.page[1] = ContainerAt(1, 1)
  /\ calc.page[2] = ContainerAt(1, 2)
  /\ Len(calc.out) = 2
  /\ Owners(calc.out[1]) = {1}
  /\ Owners(calc.out[2]) = {2}

\* the items of an automatic extraction that carry the text of block i
ItemsOfBlock(out, i) ==
  { k \in DOMAIN out : out[k].title.id = i \/ out[k].description.id = i }

\* C16: automatic extraction emits a candidate node exactly when its
\* trimmed text is longer than 80 characters (40 and 80 are left out, 81 is
\* kept), once and in document order; an emitted h1/h2/h3 has its trimmed
\* text as title and an empty description, any other emitted node has it as
\* description and an empty title.
C16_AutoExtraction ==
  calc.op = "extractAuto" =>
    /\ \A i \in DOMAIN calc.blocks :
         LET t == trim(calc.blocks[i].innerText)
             hits == ItemsOfBlock(calc.out, i)
         IN /\ t.core > 80 <=> hits # {}
            /\ t.core \in {40, 80} => hits = {}
            /\ t.core = 81 => hits # {}
            /\ Cardinality(hits) <= 1
            /\ \A k \in hits :
                 IF calc.blocks[i].tagName \in {"H1", "H2", "H3"}
                   THEN calc.out[k] = [title |-> t, description |-> EmptyText]
                   ELSE calc.out[k] = [title |-> EmptyText, description |-> t]
    /\ \A k \in DOMAIN calc.out :
         /\ \E i \in DOMAIN calc.blocks : k \in ItemsOfBlock(calc.out, i)
         /\ \A l \in DOMAIN calc.out :
              k < l => \A i \in DOMAIN calc.blocks : \A j \in DOMAIN calc.blocks :
                         (k \in ItemsOfBlock(calc.out, i)
                           /\ l \in ItemsOfBlock(calc.out, j)) => i < j

\* a paragraph of 80 characters between white space was left out and a
\* heading of 81 was emitted as a title
C16_Witness ==
  /\ calc.op = "extractAuto"
  /\ Len(calc.blocks) = 2
  /\ calc.blocks[1] = Node("P", "", Text(1, 80, 1, 1))
  /\ calc.blocks[2] = Node("H1", "", Text(0, 81, 0, 2))
  /\ calc.out = << [title |-> Text(0, 81, 0, 2), description |-> EmptyText] >>

\* the container a review of a live run was built from
ElementOf(r) == PageItems(r.id \div 10)[r.id % 10]

\* C17: every Review a driver extracts carries a number as rating, and the
\* rating is 0 when the container has no rating element, or one whose
\* data-rating attribute or text is not a number.
C17_NumericRating ==
  \A i \in DOMAIN allReviews :
    /\ allReviews[i].rating # NaN
    /\ ElementOf(allReviews[i]).rating.kind \in {"none", "attrNaN"} =>
         allReviews[i].rating = 0

\* C18: for every valid date string YYYY-MM-DD, formatDate(parseDate(s))
\* names the calendar date of s, whatever the host's time zone.
C18_FormatParseRoundTrip ==
  (/\ calc.op = "parseDate"
   /\ calc.s.fmt = "iso"
   /\ ValidYMD(calc.s.y, calc.s.m, calc.s.d)) =>
    calc.formatted = << calc.s.y, calc.s.m, calc.s.d >>

Strategies ==
  << NativeParse(calc.s, tz), RelativeStrategy(calc.s, tz, calc.now),
     MonthNameStrategy(calc.s, tz), NumericStrategy(calc.s, tz),
     EuroStrategy(calc.s, tz) >>

\* C20: parseDate returns what the first accepting strategy returns, in the
\* order native, relative, month name, year-month-day, day-month-year; it
\* returns null exactly when no strategy accepts the string (the empty
\* string among them); a later strategy never overrides an earlier one.
C20_StrategyOrder ==
  calc.op = "parseDate" =>
    LET accepting == { i \in DOMAIN Strategies : Strategies[i] # Null }
    IN /\ calc.out = Null <=> (accepting = {} \/ calc.s = EmptyStr)
       /\ calc.s = EmptyStr => calc.out = Null
       /\ \A i \in accepting :
            (\A j \in accepting : i <= j) => calc.out = Strategies[i]

\* an ISO date west of Greenwich: the native strategy and the numeric one
\* both accept it with different instants, and the native one was returned
C20_Witness ==
  /\ calc.op = "parseDate"
  /\ calc.s = DStr("iso", 2025, 6, 30)
  /\ tz = -5
  /\ NumericStrategy(calc.s, tz) # Null
  /\ NumericStrategy(calc.s, tz) # NativeParse(calc.s, tz)
  /\ calc.out = NativeParse(calc.s, tz)

\* the calendar day a date string names
DayOf(s) == DaysFromCivil(s.y, s.m, s.d)

\* the fixture reviews dated from the day of sd to the day of ed, in fixture
\* order
FixtureInRange(sd, ed) ==
  SelectSeq(MockData, LAMBDA r : DayOf(sd) <= DayOf(r.date) /\ DayOf(r.date) <= DayOf(ed))

\* C21: a g2 review request served from the fixture returns exactly the
\* fixture reviews dated within the requested range, in fixture order, each
\* with a number as rating and the fixture's source; the range 2025-01-01 to
\* 2025-06-30 returns all five.
C21_FixtureInRange ==
  (kind = "review" /\ drv = "g2" /\ useMockData /\ dpc = "returned") =>
    /\ result.success
    /\ result.data = FixtureInRange(body.startDate.s, body.endDate.s)
    /\ \A i \in DOMAIN result.data :
         /\ result.data[i].rating \in 0..50
         /\ result.data[i].source = "G2 (Demo Data)"
    /\ \A i \in DOMAIN responses :
         responses[i].success = "true" =>
           responses[i].data = FixtureInRange(body.startDate.s, body.endDate.s)
    /\ (body.startDate.s = DStr("iso", 2025, 1, 1)
          /\ body.endDate.s = DStr("iso", 2025, 6, 30)) => result.data = MockData

\* a review request, valid in every field, whose start is after its end
ReversedRange ==
  /\ kind = "review"
  /\ body.companyName # "absent"
  /\ body.startDate.t = "str" /\ body.endDate.t = "str"
  /\ parseDate(body.startDate.s, tz, Clock) # Null
  /\ parseDate(body.endDate.s, tz, Clock) # Null
  /\ parseDate(body.startDate.s, tz, Clock) > parseDate(body.endDate.s, tz, Clock)
  /\ SelectDriver(toLowerCase(body.source)) # "none"

\* C22: a review request whose startDate is later than its endDate passes
\* validation: the selected driver runs, every success result it returns
\* has empty data whatever was accumulated, and the request is then
\* answered 404 with success false.
C22_ReversedRangeIsEmpty ==
  ReversedRange =>
    /\ drv = SelectDriver(toLowerCase(body.source))
    /\ \A i \in DOMAIN responses : responses[i].status # 400
    /\ (result.state = "value" /\ result.success) => result.data = << >>
    /\ (hpc = "done" /\ result.success) => responses = << FailureResponse(404) >>

\* a Capterra run over a reversed range accumulated reviews, returned none
\* and was answered 404
C22_Witness ==
  /\ ReversedRange
  /\ drv = "capterra"
  /\ hpc = "done"
  /\ allReviews # << >>
  /\ result = Success(<< >>)
  /\ responses = << FailureResponse(404) >>

\* the live G2 driver
G2Live == drv = "g2" /\ ~useMockData

\* no page was extracted twice
NoPageTwice ==
  \A i \in DOMAIN extracted : \A j \in DOMAIN extracted :
    i # j => extracted[i] # extracted[j]

\* C23: in the live G2 driver, once the probe has found no non-disabled
\* next control or the page counter has reached maxPages (hasNextPage was
\* set to "no next"), the loop has exited with the success result, and no
\* page is extracted again.
C23_G2LoopExits ==
  (G2Live /\ navFailedAt = 0 /\ hasNextPage = "objNoNext") =>
    /\ Ended
    /\ result.success
    /\ NoPageTwice

\* C24: in the live G2 driver, after a navigation to the next page has
\* thrown, no further Extract runs: the run has ended and no page was
\* extracted twice.
C24_G2NavFailureStops ==
  (G2Live /\ navFailedAt # 0) =>
    /\ Ended
    /\ NoPageTwice

\* A measure of the work a Capterra / TrustRadius run has left: the steps
\* before the loop count down to it, each loop round on page currentPage
\* has three steps, and the finally block is the last step.
Rank ==
  LET rounds == args.maxPages - currentPage + 1
  IN CASE dpc = "returned"    -> 0
       [] dpc = "finally"     -> 1
       [] dpc = "advance"     -> 3 * rounds - 1
       [] dpc = "probe"       -> 3 * rounds
       [] dpc = "extract"     -> 3 * rounds + 1
       [] dpc = "gotoReviews" -> 3 * args.maxPages + 2
       [] dpc = "trSearch"    -> 3 * args.maxPages + 3
       [] dpc = "locate"      -> 3 * args.maxPages + 4
       [] dpc = "open"        -> 3 * args.maxPages + 5
       [] OTHER               -> 3 * args.maxPages + 6

\* C25: in the Capterra and TrustRadius drivers, whatever the waits, the
\* probes and the navigations do, Extract runs on at most maxPages pages and
\* the driver returns: until it has returned a step is always possible, and
\* every step takes it strictly closer to the return.
C25_PaginationTerminates ==
  Paginated =>
    /\ Len(extracted) <= args.maxPages
    /\ Rank >= 0
    /\ dpc = "returned" => result.state # "none"
    /\ dpc # "returned" =>
         /\ ENABLED Next
         /\ ~ ENABLED (Next /\ Rank' >= Rank)

\* a run with cap 3 that extracted three pages, the third after a wait that
\* timed out, and returned
C25_Witness ==
  /\ Paginated
  /\ dpc = "returned"
  /\ args.maxPages = 3
  /\ extracted = << 1, 2, 3 >>
  /\ result.state = "value"

\* page p is among the pages extracted
WasExtracted(p) == \E i \in DOMAIN extracted : extracted[i] = p

\* C26: in the Capterra and TrustRadius drivers a timed-out wait for the
\* review containers never fails the run: no result reports the wait; a
\* page the run is past was extracted whether or not its wait timed out, and
\* so was the page shown once the probe or the navigation is due; and a run
\* that extracted a page after a timed-out wait ends in success unless an
\* extraction or a probe threw.
C26_WaitTimeoutNotFatal ==
  Paginated =>
    /\ result.error # "wait"
    /\ \A p \in 1..(sitePage - 1) : WasExtracted(p)
    /\ dpc \in {"probe", "advance"} => WasExtracted(sitePage)
    /\ (/\ Ended
        /\ \E i \in DOMAIN extracted : WaitTimesOut(extracted[i])
        /\ result.error \notin {"extract", "probe"}) => result.success

\* the wait on the empty third page timed out; the page was extracted, the
\* probe ran and the run returned the reviews of pages 1 and 2
C26_Witness ==
  /\ drv = "trustradius"
  /\ dpc = "returned"
  /\ avail = 3
  /\ WaitTimesOut(3)
  /\ extracted = << 1, 2, 3 >>
  /\ hasNextPage = "false"
  /\ navFailedAt = 0
  /\ result.success
  /\ result.data # << >>

RECURSIVE IsSubsequence(_, _)
\* a is b with some elements left out
IsSubsequence(a, b) ==
  IF a = << >> THEN TRUE
  ELSE IF b = << >> THEN FALSE
  ELSE IF Head(a) = Head(b) THEN IsSubsequence(Tail(a), Tail(b))
  ELSE IsSubsequence(a, Tail(b))

\* C27: the data of a driver's success result is a subsequence of its
\* accumulator (nothing reordered, repeated or changed), and the accumulator
\* of a Capterra / TrustRadius run lists the reviews page after page and,
\* within a page, in DOM order.
C27_DataIsSubsequence ==
  (drv # "none" /\ result.state = "value" /\ result.success) =>
    /\ IsSubsequence(result.data, Accumulated)
    /\ Paginated =>
         /\ \A i \in DOMAIN allReviews : \A j \in DOMAIN allReviews :
              i < j => allReviews[i].id < allReviews[j].id
         /\ \A i \in DOMAIN allReviews :
              allReviews[i] = Review(ElementOf(allReviews[i]), SourceName(drv))

\* a run returned two reviews of different pages, in page order, out of an
\* accumulator that held more
C27_Witness ==
  /\ Paginated
  /\ dpc = "returned"
  /\ result.success
  /\ Len(result.data) >= 2
  /\ Len(result.data) < Len(allReviews)
  /\ result.data[1].id \div 10 = 1
  /\ result.data[Len(result.data)].id \div 10 = 2

\* the mapping is supplied and has a value that is not blank
HasNonBlankSelector(sel) ==
  sel.given /\ \E f \in SelectorFields : sel[f] \notin {"", " "}

\* C28: the extraction step of a generic scrape runs exactly one mode: the
\* selector-driven one when the mapping is supplied with a non-blank value,
\* the automatic one otherwise (no mapping, an empty one, or only blank
\* values); the items are those of that mode alone, and with no root in the
\* mapping the document body is the one root.
C28_ExactlyOneMode ==
  calc.op = "scrapeExtract" =>
    /\ calc.out.mode = IF HasNonBlankSelector(calc.sel) THEN "selectors" ELSE "auto"
    /\ calc.out.mode = "auto" =>
         /\ ~calc.out.threw
         /\ calc.out.items = ExtractAuto(calc.doc.blocks)
    /\ (calc.out.mode = "selectors" /\ ~calc.out.threw /\ calc.sel.root = ".item") =>
         calc.out.items = ExtractSelectors(calc.doc.containers, calc.sel)
    /\ (calc.out.mode = "selectors" /\ ~calc.out.threw /\ calc.sel.root = "") =>
         /\ Len(calc.out.items) <= 1
         /\ calc.out.items = ExtractSelectors(<< Flatten(calc.doc.containers) >>, calc.sel)

\* a mapping with nothing but white space ran the automatic mode on a page
\* that also has matching containers
C28_Witness ==
  /\ calc.op = "scrapeExtract"
  /\ calc.sel.given
  /\ calc.sel.root = " " /\ calc.sel.title = " "
  /\ calc.sel.description = "" /\ calc.sel.rating = ""
  /\ calc.doc.containers # << >>
  /\ calc.out.mode = "auto"
  /\ Len(calc.out.items) = 2

\* C29: with both bounds given as YYYY-MM-DD and the start day not after the
\* end day, a successful run returns every accumulated review whose
\* month-name date string names the calendar day of the start bound or of
\* the end bound, whatever the host's time-zone offset.
C29_BoundaryDaysIncluded ==
  (kind = "review" /\ Paginated /\ Ended /\ result.success
     /\ body.startDate.s.fmt = "iso" /\ body.endDate.s.fmt = "iso"
     /\ DayOf(body.startDate.s) <= DayOf(body.endDate.s)) =>
    \A i \in DOMAIN allReviews :
      (allReviews[i].date.fmt = "name"
         /\ DayOf(allReviews[i].date) \in {DayOf(body.startDate.s), DayOf(body.endDate.s)}) =>
        \E j \in DOMAIN result.data : result.data[j] = allReviews[i]

\* C30: the Capterra Locate step returns a reviews URL exactly when some
\* card of the search listing has a product name containing the company
\* name and a reviews link; it reports not-found only when there is no such
\* card.
C30_LocateFindsAnyListing ==
  calc.op = "capterraLocate" =>
    (calc.out <=> \E i \in DOMAIN calc.cards : calc.cards[i].match /\ calc.cards[i].link)

\* C31: with the mock-data toggle on, a G2 review run launches no browser
\* and navigates nowhere; whatever the company name it has returned success
\* with the fixture reviews filtered by the date range, and never a
\* not-found failure.
C31_MockRunHasNoSession ==
  (drv = "g2" /\ useMockData) =>
    /\ launches = 0 /\ closes = 0
    /\ sitePage = 0 /\ urlIdx = 0 /\ navFailedAt = 0 /\ extracted = << >>
    /\ dpc = "returned"
    /\ result = Success(InRangeOf(MockData))
    /\ result.error # "notfound"

\* a review request with a numeric company name served from the fixture
C31_Witness ==
  /\ drv = "g2" /\ useMockData /\ kind = "review"
  /\ args.company = "num"
  /\ result.success /\ Len(result.data) >= 1
  /\ hpc = "done"

\* the string applied is a numeric one that the native strategy refused, so
\* that the year-month-day or the day-month-year strategy handled it
NumericHandled ==
  /\ calc.op = "parseDate"
  /\ calc.s.fmt \in {"iso", "ymd", "dmy"}
  /\ NativeParse(calc.s, tz) = Null

\* C32: for a numeric date string handled by the year-month-day or the
\* day-month-year strategy, a string naming a calendar date is returned as
\* an instant of that year, month and day, and a string whose month is not
\* in 1..12 or whose day is not in that month is never returned as an
\* instant of another calendar date.
C32_NumericFieldsKept ==
  NumericHandled =>
    /\ ValidYMD(calc.s.y, calc.s.m, calc.s.d) => calc.out # Null
    /\ calc.out # Null => calc.formatted = << calc.s.y, calc.s.m, calc.s.d >>

\* C33: in the review endpoint a file write is started only once the driver
\* has returned success with data that is not empty, and it is given that
\* data; a success response is sent only when the write has completed, and
\* its count is the length of its data; when the write fails the request
\* ends with the one response 500 and no success response.
C33_WriteThenRespond ==
  /\ Len(writes) <= 1
  /\ writes # << >> =>
       /\ kind = "review" /\ dpc = "returned"
       /\ result.state = "value" /\ result.success /\ result.data # << >>
       /\ writes[1].data = result.data
  /\ \A i \in DOMAIN responses :
       (kind = "review" /\ responses[i].success = "true") =>
         /\ writes = << [data |-> responses[i].data, outcome |-> "written"] >>
         /\ responses[i].count = Len(responses[i].data)
  /\ (writes # << >> /\ writes[1].outcome = "failed") =>
       /\ hpc = "done"
       /\ responses = << FailureResponse(500) >>

\* a review request whose two reviews were written and then sent
C33_Witness ==
  /\ kind = "review" /\ hpc = "done"
  /\ writes # << >> /\ writes[1].outcome = "written"
  /\ Len(responses) = 1 /\ responses[1].status = 200
  /\ responses[1].count = 2

====
